---- MODULE Spec2Model ----
(***************************************************************************)
(* The browser pool of src/src/browser-pool.js (class BrowserPool) and the *)
(* /render handler of the pooled server (src/unnamed/part_001) as one      *)
(* state machine.  Node.js runs one callback at a time: every action below *)
(* is the code that runs between two returns to the event loop (from a     *)
(* timer, an I/O completion or a setImmediate callback up to the next      *)
(* pending await).                                                         *)
(***************************************************************************)
EXTENDS Integers, Sequences, FiniteSets, TLC

\* ------------------------------------------------------------------ bounds

\* options.maxBrowsers and options.maxPagesPerBrowser of the pool under check
maxBrowsers == 2
maxPagesPerBrowser == 1
\* number of /render requests that arrive
NumRequests == 3
\* pending setImmediate callbacks that are told apart (more than that many all
\* run the same processQueue, and all but the first find the work done)
MaxImmediates == 1
\* number of adverse events: a browser losing its connection, an engine
\* operation failing (launch, newPage, navigation, capture, page.close,
\* sendFile), a queue timer or a global timer firing
MaxAdverse == 2
\* number of releasePage calls a caller of the pool makes for one page
MaxReleases == 2
\* number of requests that arrive at the /render handler of src/src/server.js
NumLegacyRequests == 2
\* number of requests that reach the capture of their page, and the last
\* value of Date.now() (in milliseconds from the first) while they do
NumShots == 2
MaxNow == 2

Reqs == 1..NumRequests
LegacyReqs == 1..NumLegacyRequests
ShotReqs == 1..NumShots

VARIABLES
    browsers,     \* this.browsers: sequence of [id, pages, connected]
    queue,        \* this.queue: sequence of requests (one entry per acquirePage call)
    timers,       \* requests whose queue timeoutHandle is armed
    processing,   \* this.processing
    immediates,   \* number of setImmediate(() => this.processQueue()) callbacks pending
    passes,       \* processQueue calls suspended at an await
    acq,          \* per request: how its acquirePage promise settled
    shifted,      \* requests whose queue entry was taken by queue.shift()
    initLeft,     \* launches initialize() still has to complete
    adverse,      \* adverse events so far
    pc,           \* per request: where its /render handler is
    aborted,      \* per request: abortController.signal.aborted
    gtimer,       \* per request: the global timeout timer is armed
    sending,      \* per request: res.sendFile has not called back yet
    writes,       \* per request: number of times a status line was written
    status,       \* per request: the status written last (0: none)
    releases,     \* per request: number of releasePage calls for its page
    leftAt,       \* per request: where the handler was when it left its try block
    shut,         \* the call of shutdown(): where it is and what it met
    legacy,       \* per request of src/src/server.js: where its handler is
    shots         \* the temporary screenshot files: clock, paths, /tmp, images sent

poolVars == <<browsers, queue, timers, processing, immediates, passes, acq,
              shifted>>
envVars == <<initLeft, adverse, shut, legacy, shots>>
reqVars == <<pc, aborted, gtimer, sending, writes, status, releases, leftAt>>
vars == <<browsers, queue, timers, processing, immediates, passes, acq,
          shifted, initLeft, adverse,
          pc, aborted, gtimer, sending, writes, status, releases, leftAt, shut,
          legacy, shots>>

\* ------------------------------------------------------------ the pool state

\* The fields of the pool that processQueue reads and writes, as one value, so
\* that the callers of processQueue can apply it to the state they have built.
\* waited and threw are not state: they report which way the call went
\* ('No available browsers, waiting...'; an exception leaving the try block).
Pool ==
    [browsers |-> browsers, queue |-> queue, timers |-> timers,
     processing |-> processing, immediates |-> immediates, passes |-> passes,
     acq |-> acq, shifted |-> shifted, waited |-> FALSE, threw |-> FALSE]

SetPool(P) ==
    /\ browsers' = P.browsers
    /\ queue' = P.queue
    /\ timers' = P.timers
    /\ processing' = P.processing
    /\ immediates' = P.immediates
    /\ passes' = P.passes
    /\ acq' = P.acq
    /\ shifted' = P.shifted

RemoveAt(s, k) == SubSeq(s, 1, k - 1) \o SubSeq(s, k + 1, Len(s))

\* Array.prototype.indexOf on this.browsers, by object identity (0: not found)
IndexOfBrowserNone(bs, id) == 0

IndexOfBrowser(bs, id) ==
    IF \E i \in 1..Len(bs) : bs[i].id = id
    THEN CHOOSE i \in 1..Len(bs) : bs[i].id = id
    ELSE 0

\* Array.prototype.findIndex on this.queue for the entry of request r
InQueue(q, r) == \E i \in 1..Len(q) : q[i] = r

RemoveFromQueue(q, r) == SelectSeq(q, LAMBDA x : x # r)

\* the browser whose page list holds the page of request r (0: none)
HolderIndex(bs, r) ==
    IF \E i \in 1..Len(bs) : r \in bs[i].pages
    THEN CHOOSE i \in 1..Len(bs) : r \in bs[i].pages
    ELSE 0

\* the identity of a new browser object: one that no browser of the pool and no
\* suspended pass refers to
FreshId(bs, ps) ==
    CHOOSE id \in 1..(Len(bs) + Len(ps) + 1) :
        /\ \A i \in 1..Len(bs) : bs[i].id # id
        /\ \A k \in 1..Len(ps) : ps[k].b # id

\* launchBrowser's push of a new browser object
NewBrowser(id) == [id |-> id, pages |-> {}, connected |-> TRUE]

\* ------------------------------------------------------------ processQueue

\* the finally block: clear the flag, and schedule another call while entries
\* wait
FinallyNoPoll(P) == [P EXCEPT !.processing = FALSE]

Finally(P) ==
    [P EXCEPT !.processing = FALSE,
              !.immediates = IF P.queue # <<>> /\ @ < MaxImmediates THEN @ + 1 ELSE @]

\* a throw that leaves the try block: finally runs, the promise of
\* processQueue rejects and nothing handles it
Throw(P) == Finally([P EXCEPT !.threw = TRUE])

\* queue.shift(), clearTimeout, and the call of newPage on the chosen browser;
\* on an empty queue the destructuring of undefined throws a TypeError
DequeueLast(P, bid) ==
    IF P.queue = <<>>
    THEN Throw(P)
    ELSE LET r == P.queue[Len(P.queue)] IN
         [P EXCEPT !.queue = SubSeq(@, 1, Len(@) - 1),
                   !.timers = @ \ {r},
                   !.shifted = @ \cup {r},
                   !.passes = Append(@, [pc |-> "newpage", b |-> bid, i |-> 0, r |-> r])]

DequeueKeepTimer(P, bid) ==
    IF P.queue = <<>>
    THEN Throw(P)
    ELSE LET r == Head(P.queue) IN
         [P EXCEPT !.queue = Tail(@),
                   !.shifted = @ \cup {r},
                   !.passes = Append(@, [pc |-> "newpage", b |-> bid, i |-> 0, r |-> r])]

DequeuePeek(P, bid) ==
    IF P.queue = <<>>
    THEN Throw(P)
    ELSE LET r == Head(P.queue) IN
         [P EXCEPT !.timers = @ \ {r},
                   !.shifted = @ \cup {r},
                   !.passes = Append(@, [pc |-> "newpage", b |-> bid, i |-> 0, r |-> r])]

Dequeue(P, bid) ==
    IF P.queue = <<>>
    THEN Throw(P)
    ELSE LET r == Head(P.queue) IN
         [P EXCEPT !.queue = Tail(@),
                   !.timers = @ \ {r},
                   !.shifted = @ \cup {r},
                   !.passes = Append(@, [pc |-> "newpage", b |-> bid, i |-> 0, r |-> r])]

\* the test of the scan for a free page slot
HasFreeSlotStrict(b) == Cardinality(b.pages) < maxPagesPerBrowser - 1

HasFreeSlot(b) == Cardinality(b.pages) < maxPagesPerBrowser

\* the entry at the head of the queue (0: the queue is empty)
HeadOrNone(q) == IF q = <<>> THEN 0 ELSE Head(q)

\* after the scan found nothing: launch if the pool may grow, else give up.
\* The pass record notes the entry at the head of the queue when the launch
\* starts; the code keeps no such reference.
AfterScanKeepFlag(P) ==
    IF Len(P.browsers) < maxBrowsers
    THEN [P EXCEPT !.passes = Append(@, [pc |-> "launching", b |-> 0, i |-> 0,
                                         r |-> HeadOrNone(P.queue)])]
    ELSE [P EXCEPT !.waited = TRUE]

AfterScanNoPoll(P) ==
    IF Len(P.browsers) < maxBrowsers
    THEN [P EXCEPT !.passes = Append(@, [pc |-> "launching", b |-> 0, i |-> 0,
                                         r |-> HeadOrNone(P.queue)])]
    ELSE [P EXCEPT !.processing = FALSE, !.waited = TRUE]

AfterScan(P) ==
    IF Len(P.browsers) < maxBrowsers
    THEN [P EXCEPT !.passes = Append(@, [pc |-> "launching", b |-> 0, i |-> 0,
                                         r |-> HeadOrNone(P.queue)])]
    ELSE Finally([P EXCEPT !.processing = FALSE, !.waited = TRUE])

\* the for..of scan of this.browsers from array index i on (the array iterator
\* keeps an index into the live array)
RECURSIVE ScanNoLivenessCheck(_, _)
ScanNoLivenessCheck(P, i) ==
    IF i > Len(P.browsers)
    THEN AfterScan(P)
    ELSE LET b == P.browsers[i] IN
         IF HasFreeSlot(b)
         THEN Dequeue(P, b.id)
         ELSE ScanNoLivenessCheck(P, i + 1)

RECURSIVE Scan(_, _)
Scan(P, i) ==
    IF i > Len(P.browsers)
    THEN AfterScan(P)
    ELSE LET b == P.browsers[i] IN
         IF HasFreeSlot(b)
         THEN IF b.connected
              THEN Dequeue(P, b.id)
              ELSE \* await this.removeBrowser(browserInfo)
                   [P EXCEPT !.passes = Append(@, [pc |-> "removing", b |-> b.id, i |-> i, r |-> 0])]
         ELSE Scan(P, i + 1)

\* the entry guard of processQueue
PassGuardNoFlag(P) == P.queue = <<>>

PassGuard(P) == P.processing \/ P.queue = <<>>

\* a call of processQueue(), up to its first pending await
ProcessQueueNoSet(P) ==
    IF PassGuard(P) THEN P ELSE Scan(P, 1)

ProcessQueue(P) ==
    IF PassGuard(P) THEN P ELSE Scan([P EXCEPT !.processing = TRUE], 1)


\* ------------------------------------------------- acquirePage and its timers

\* the promise executor of acquirePage: arm the timer, push the entry, call
\* processQueue (the signal is not aborted when the handler calls it)
AcquirePage(P, r) ==
    ProcessQueue([P EXCEPT !.queue = Append(@, r),
                           !.timers = @ \cup {r},
                           !.acq[r] = "pending"])

\* reject() of the acquirePage promise: a promise settles once
RejectNot(P, r, how) == P

Reject(P, r, how) ==
    [P EXCEPT !.acq[r] = IF @ = "pending" THEN how ELSE @]

\* the callback of timeoutHandle
TimeoutCallbackNoSplice(P, r) ==
    Reject([P EXCEPT !.timers = @ \ {r}], r, "timeout")

TimeoutCallback(P, r) ==
    Reject([P EXCEPT !.timers = @ \ {r},
                     !.queue = RemoveFromQueue(@, r)], r, "timeout")

\* the abort listener onAbort
OnAbortNoSplice(P, r) ==
    IF InQueue(P.queue, r)
    THEN Reject([P EXCEPT !.timers = @ \ {r}], r, "abort")
    ELSE [P EXCEPT !.timers = @ \ {r}]

OnAbortAlwaysReject(P, r) ==
    Reject([P EXCEPT !.timers = @ \ {r},
                     !.queue = RemoveFromQueue(@, r)], r, "abort")

OnAbort(P, r) ==
    IF InQueue(P.queue, r)
    THEN Reject([P EXCEPT !.timers = @ \ {r},
                          !.queue = RemoveFromQueue(@, r)], r, "abort")
    ELSE [P EXCEPT !.timers = @ \ {r}]

\* ---------------------------------------------------------------- releasePage

\* releasePage up to its await of page.close(); when no browser of the pool
\* holds the page, the loop ends and processQueue is called at once
ReleaseStartNoCheck(P, r) ==
    LET idx == HolderIndex(P.browsers, r) IN
    IF idx # 0
    THEN [P EXCEPT !.browsers[idx].pages = @ \ {r}]
    ELSE IF P.browsers # <<>> /\ P.browsers[1].pages # {}
         THEN [P EXCEPT !.browsers[1].pages = @ \ {CHOOSE x \in @ : TRUE}]
         ELSE ProcessQueue(P)

ReleaseStart(P, r) ==
    LET idx == HolderIndex(P.browsers, r) IN
    IF idx # 0
    THEN [P EXCEPT !.browsers[idx].pages = @ \ {r}]
    ELSE ProcessQueue(P)

ReleaseFound(P, r) == HolderIndex(P.browsers, r) # 0

\* ------------------------------------------------------------ initial state

\* shutdown() has not been called.  pc: "none", "removing" (suspended in
\* removeBrowser of browser b, the array iterator at index i), "done";
\* start and waiting: the browsers of the pool and the entries of the queue
\* when shutdown() was called; closed: the browsers it applied removeBrowser
\* to; dropped: the browsers this.browsers = [] let go of without closing
NoShutdown ==
    [pc |-> "none", i |-> 0, b |-> 0, start |-> {}, waiting |-> {},
     closed |-> {}, dropped |-> {}]

\* a request src/src/server.js has not received yet: no browser, no response
LegacyIdle ==
    [pc |-> "idle", browser |-> "none", status |-> 0,
     fullPage |-> FALSE, delay |-> FALSE, threwAt |-> "none"]

\* the paths `/tmp/${Date.now()}.${type}` and the value of a tempPath that is
\* not chosen yet
ShotTypes == {"png", "jpeg"}
Paths == (0..MaxNow) \X ShotTypes
NoPath == <<-1, "none">>

\* no request has reached line 150 yet and /tmp holds no screenshot; files
\* maps a path to the request whose page the image in the file shows (0: no
\* file), sent is the image a request's response carried (-1: no response
\* body yet, 0: sendFile found no file)
NoShots ==
    [now |-> 0,
     pc |-> [r \in ShotReqs |-> "ready"],
     tempPath |-> [r \in ShotReqs |-> NoPath],
     files |-> [f \in Paths |-> 0],
     sent |-> [r \in ShotReqs |-> -1]]

Init ==
    /\ browsers = <<>>
    /\ queue = <<>>
    /\ timers = {}
    /\ processing = FALSE
    /\ immediates = 0
    /\ passes = <<>>
    /\ acq = [r \in Reqs |-> "none"]
    /\ shifted = {}
    /\ initLeft = maxBrowsers    \* initialize() has been called, not awaited
    /\ adverse = 0
    /\ pc = [r \in Reqs |-> "idle"]
    /\ aborted = [r \in Reqs |-> FALSE]
    /\ gtimer = [r \in Reqs |-> FALSE]
    /\ sending = [r \in Reqs |-> FALSE]
    /\ writes = [r \in Reqs |-> 0]
    /\ status = [r \in Reqs |-> 0]
    /\ releases = [r \in Reqs |-> 0]
    /\ leftAt = [r \in Reqs |-> "idle"]
    /\ shut = NoShutdown            \* the server never calls shutdown()
    /\ legacy = [r \in LegacyReqs |-> LegacyIdle]
    /\ shots = NoShots

\* ------------------------------------------------------- the environment

\* one more adverse event
Adverse == adverse < MaxAdverse /\ adverse' = adverse + 1

\* an engine operation settles: a failure is an adverse event
Settle(ok) == IF ok THEN UNCHANGED adverse ELSE Adverse

\* ------------------------------------------------------- actions of the pool

\* one launchBrowser of initialize() completes.  (A failed launch here ends
\* the process: process.exit(1).)
InitLaunchDone ==
    /\ initLeft > 0
    /\ initLeft' = initLeft - 1
    /\ browsers' = Append(browsers, NewBrowser(FreshId(browsers, passes)))
    /\ UNCHANGED <<queue, timers, processing, immediates, passes, acq, shifted>>
    /\ UNCHANGED <<adverse, shut, legacy, shots>>
    /\ UNCHANGED reqVars

\* a browser of the pool loses its connection (isConnected() turns false)
Disconnect(i) ==
    /\ Adverse
    /\ browsers[i].connected
    /\ browsers' = [browsers EXCEPT ![i].connected = FALSE]
    /\ UNCHANGED <<queue, timers, processing, immediates, passes, acq, shifted>>
    /\ UNCHANGED <<initLeft, shut, legacy, shots>>
    /\ UNCHANGED reqVars

\* a setImmediate callback runs processQueue
RunImmediate ==
    /\ immediates > 0
    /\ SetPool(ProcessQueue([Pool EXCEPT !.immediates = @ - 1]))
    /\ UNCHANGED envVars
    /\ UNCHANGED reqVars

\* removeBrowser returns to the scan: the browser is closed and spliced out of
\* this.browsers, and the array iterator moves to the next index
AfterRemove(k) ==
    LET me == passes[k]
        idx == IndexOfBrowser(browsers, me.b)
        P == [Pool EXCEPT !.passes = RemoveAt(@, k),
                          !.browsers = IF idx # 0 THEN RemoveAt(@, idx) ELSE @]
    IN Scan(P, me.i + 1)

RemoveDone(k) ==
    /\ passes[k].pc = "removing"
    /\ SetPool(AfterRemove(k))
    /\ UNCHANGED envVars
    /\ UNCHANGED reqVars

\* the lazy launchBrowser of a pass settles: the new browser serves the head of
\* the queue, or the error leaves processQueue
LaunchDone(k, ok) ==
    /\ passes[k].pc = "launching"
    /\ Settle(ok)
    /\ LET P == [Pool EXCEPT !.passes = RemoveAt(@, k)]
           id == FreshId(P.browsers, P.passes)
       IN IF ok
          THEN SetPool(Dequeue([P EXCEPT !.browsers = Append(@, NewBrowser(id))], id))
          ELSE SetPool(Throw(P))
    /\ UNCHANGED <<initLeft, shut, legacy, shots>>
    /\ UNCHANGED reqVars

\* newPage of a pass settles: push the page and resolve, or reject.  On a
\* browser that lost its connection or was closed newPage fails.  A browser
\* that shutdown() dropped from the array without closing it still works: the
\* page goes to the list of an object the pool no longer refers to.
NewPageDone(k, ok) ==
    /\ passes[k].pc = "newpage"
    /\ LET me == passes[k]
           idx == IndexOfBrowser(browsers, me.b)
           alive == IF idx # 0 THEN browsers[idx].connected ELSE me.b \in shut.dropped
           P == [Pool EXCEPT !.passes = RemoveAt(@, k)]
       IN IF ok
          THEN /\ alive
               /\ UNCHANGED adverse
               /\ SetPool(Finally([P EXCEPT
                      !.browsers = IF idx # 0
                                   THEN [@ EXCEPT ![idx].pages = @ \cup {me.r}]
                                   ELSE @,
                      !.acq[me.r] = "page"]))
          ELSE /\ (IF alive THEN Adverse ELSE UNCHANGED adverse)
               /\ SetPool(Finally(Reject(P, me.r, "error")))
    /\ UNCHANGED <<initLeft, shut, legacy, shots>>
    /\ UNCHANGED reqVars

\* the queue timer of request r fires
QueueTimeout(r) ==
    /\ r \in timers
    /\ Adverse
    /\ SetPool(TimeoutCallback(Pool, r))
    /\ UNCHANGED <<initLeft, shut, legacy, shots>>
    /\ UNCHANGED reqVars

\* ------------------------------------------------- the /render handler

\* res.status(st).json(...): one more status line on the response
Write(r, st) ==
    /\ writes' = [writes EXCEPT ![r] = @ + 1]
    /\ status' = [status EXCEPT ![r] = st]

\* a write site guarded by !res.headersSent
WriteIfUnsent(r, st) ==
    IF writes[r] = 0
    THEN Write(r, st)
    ELSE UNCHANGED <<writes, status>>

\* the finally block of the handler, entered from pool state P
HandlerFinallyLeak(r, P, hasPage) ==
    /\ leftAt' = [leftAt EXCEPT ![r] = pc[r]]
    /\ pc' = [pc EXCEPT ![r] = "done"]
    /\ SetPool(P)
    /\ UNCHANGED releases

HandlerFinally(r, P, hasPage) ==
    /\ leftAt' = [leftAt EXCEPT ![r] = pc[r]]
    /\ IF hasPage
       THEN /\ releases' = [releases EXCEPT ![r] = @ + 1]
            /\ pc' = [pc EXCEPT ![r] = IF ReleaseFound(P, r) THEN "releasing" ELSE "done"]
            /\ SetPool(ReleaseStart(P, r))
       ELSE /\ pc' = [pc EXCEPT ![r] = "done"]
            /\ SetPool(P)
            /\ UNCHANGED releases

\* messages of the errors the catch block may see.  None of them has the name
\* 'AbortError': the handler and the pool reject with plain Error objects.
QueueTimeoutMsg == "Queue timeout exceeded"

\* puppeteer's TimeoutError of goto/setContent
NavTimeoutMsg == "Navigation timeout of 30000 ms exceeded"

\* puppeteer's goto error for a navigation that failed: the network error
\* text, then ' at ' and the url of the request
NavErrorMsg == "net::ERR_CONNECTION_REFUSED at http://host/page"

NavErrorAtTimeoutUrlMsg == "net::ERR_CONNECTION_REFUSED at http://host/timeout"

RenderTimeoutMsg == "Screenshot render timeout exceeded"

CaptureErrorMsg == "Protocol error (Page.captureScreenshot): Target closed"

NavOutcomes == {"ok", NavTimeoutMsg, NavErrorMsg, NavErrorAtTimeoutUrlMsg}

CaptureOutcomes == {"ok", RenderTimeoutMsg, CaptureErrorMsg}

\* error.message.includes('timeout')
IncludesTimeout(msg) ==
    msg \in {QueueTimeoutMsg, NavTimeoutMsg, NavErrorAtTimeoutUrlMsg, RenderTimeoutMsg}

\* the status the catch block chooses
StatusOf(msg) == IF IncludesTimeout(msg) THEN 504 ELSE 500

\* the catch block (clearTimeout, answer unless headers were sent), then finally
CatchFinallyKeepPage(r, st, hasPage) ==
    /\ gtimer' = [gtimer EXCEPT ![r] = FALSE]
    /\ WriteIfUnsent(r, st)
    /\ HandlerFinally(r, Pool, FALSE)
    /\ UNCHANGED <<aborted, sending>>

CatchFinally(r, st, hasPage) ==
    /\ gtimer' = [gtimer EXCEPT ![r] = FALSE]
    /\ WriteIfUnsent(r, st)
    /\ HandlerFinally(r, Pool, hasPage)
    /\ UNCHANGED <<aborted, sending>>

\* the values a field of the request body is told apart by: no such key, the
\* empty string, another string
Fields == {"absent", "", "text"}

Types == {"absent", "png", "jpeg", "gif"}

\* JavaScript truthiness of a field
Truthy(v) == v \notin {"absent", ""}

\* type = 'png' of the destructuring: the default applies to a missing key
TypeOf(type) == IF type = "absent" THEN "png" ELSE type

\* the two checks of the handler that answer 400
ValidNoBoth(html, url, type) ==
    /\ ~(~Truthy(html) /\ ~Truthy(url))
    /\ ~(TypeOf(type) # "png" /\ TypeOf(type) # "jpeg")

Valid(html, url, type) ==
    /\ ~((Truthy(html) /\ Truthy(url)) \/ (~Truthy(html) /\ ~Truthy(url)))
    /\ ~(TypeOf(type) # "png" /\ TypeOf(type) # "jpeg")

\* what the checks say of the request bodies that may arrive
Verdicts == {Valid(html, url, type) : html \in Fields, url \in Fields, type \in Types}

\* a request arrives: arm the global timer, validate, call acquirePage
Arrive(r, valid) ==
    /\ pc[r] = "idle"
    /\ (IF r = 1 THEN TRUE ELSE pc[r - 1] # "idle")   \* numbered in arrival order
    /\ gtimer' = [gtimer EXCEPT ![r] = TRUE]
    /\ IF valid
       THEN /\ pc' = [pc EXCEPT ![r] = "acquiring"]
            /\ SetPool(AcquirePage(Pool, r))
            /\ UNCHANGED <<writes, status>>
       ELSE /\ pc' = [pc EXCEPT ![r] = "done"]
            /\ Write(r, 400)
            /\ UNCHANGED poolVars
    /\ UNCHANGED envVars
    /\ UNCHANGED <<aborted, sending, releases, leftAt>>

\* the await of acquirePage returns the page or throws
AcquireReturn(r, st) ==
    /\ pc[r] = "acquiring"
    /\ acq[r] \notin {"none", "pending"}
    /\ IF acq[r] = "page" /\ ~aborted[r]
       THEN /\ st = 500
            /\ pc' = [pc EXCEPT ![r] = "navigating"]
            /\ UNCHANGED poolVars
            /\ UNCHANGED <<aborted, gtimer, sending, writes, status, releases, leftAt>>
       ELSE /\ st = (CASE acq[r] = "timeout" -> StatusOf(QueueTimeoutMsg)
                       [] acq[r] = "error" -> st      \* the engine's message
                       [] OTHER -> 500)               \* 'Request aborted while ...'
            /\ CatchFinally(r, st, acq[r] = "page")
    /\ UNCHANGED envVars

\* setViewport and goto/setContent settle (ok, or an error with message
\* res); then cancellableDelay when delay > 0, and the abort check
NavDone(r, res, delay) ==
    /\ pc[r] = "navigating"
    /\ Settle(res = "ok")
    /\ IF res = "ok" /\ ~aborted[r]
       THEN /\ pc' = [pc EXCEPT ![r] = IF delay THEN "delay" ELSE "capture"]
            /\ UNCHANGED poolVars
            /\ UNCHANGED <<aborted, gtimer, sending, writes, status, releases, leftAt>>
       ELSE /\ ~delay
            /\ CatchFinally(r, StatusOf(res), TRUE)
    /\ UNCHANGED <<initLeft, shut, legacy, shots>>

\* the timer of cancellableDelay fires
DelayDone(r) ==
    /\ pc[r] = "delay"
    /\ pc' = [pc EXCEPT ![r] = "capture"]
    /\ UNCHANGED poolVars
    /\ UNCHANGED envVars
    /\ UNCHANGED <<aborted, gtimer, sending, writes, status, releases, leftAt>>

\* the race of page.screenshot against the render timeout settles (ok, or an
\* error with message res)
CaptureDone(r, res) ==
    /\ pc[r] = "capture"
    /\ Settle(res = "ok")
    /\ IF res = "ok"
       THEN \* res.sendFile(tempPath, cb), then finally
            /\ sending' = [sending EXCEPT ![r] = TRUE]
            /\ HandlerFinally(r, Pool, TRUE)
            /\ UNCHANGED <<aborted, gtimer, writes, status>>
       ELSE CatchFinally(r, StatusOf(res), TRUE)
    /\ UNCHANGED <<initLeft, shut, legacy, shots>>

\* res.sendFile finishes and calls back: it writes the 200 headers unless
\* headers were sent meanwhile; on an error the callback answers 500 unless sent
SendFileDone(r, ok) ==
    /\ sending[r]
    /\ Settle(ok)
    /\ sending' = [sending EXCEPT ![r] = FALSE]
    /\ gtimer' = [gtimer EXCEPT ![r] = FALSE]
    /\ WriteIfUnsent(r, IF ok THEN 200 ELSE 500)
    /\ UNCHANGED poolVars
    /\ UNCHANGED <<initLeft, shut, legacy, shots>>
    /\ UNCHANGED <<pc, aborted, releases, leftAt>>

\* page.close() of releasePage settles: processQueue on success, catch on failure
ReleaseDone(r, closed) ==
    /\ pc[r] = "releasing"
    /\ Settle(closed)
    /\ pc' = [pc EXCEPT ![r] = "done"]
    /\ SetPool(IF closed THEN ProcessQueue(Pool) ELSE Pool)
    /\ UNCHANGED <<initLeft, shut, legacy, shots>>
    /\ UNCHANGED <<aborted, gtimer, sending, writes, status, releases, leftAt>>

\* the test of the global timer's callback
TimerMayAnswerAlways(r) == TRUE

TimerMayAnswerNever(r) == FALSE

TimerMayAnswer(r) == writes[r] = 0

\* the global timeout timer of request r fires
GlobalTimeout(r) ==
    /\ gtimer[r]
    /\ Adverse
    /\ gtimer' = [gtimer EXCEPT ![r] = FALSE]
    /\ IF TimerMayAnswer(r)
       THEN /\ aborted' = [aborted EXCEPT ![r] = TRUE]
            /\ Write(r, 504)
            /\ IF pc[r] \in {"delay", "capture"}
               THEN \* the abort listener rejects the awaited promise: catch, finally
                    HandlerFinally(r, OnAbort(Pool, r), TRUE)
               ELSE /\ SetPool(OnAbort(Pool, r))
                    /\ UNCHANGED <<pc, releases, leftAt>>
       ELSE /\ UNCHANGED poolVars
            /\ UNCHANGED <<pc, aborted, writes, status, releases, leftAt>>
    /\ UNCHANGED <<initLeft, sending, shut, legacy, shots>>

\* ------------------------------------------- the pool under any caller

\* the browser objects of an array, and the entries of a queue
BrowserIds(bs) == {bs[i].id : i \in 1..Len(bs)}

QueueSet(q) == {q[i] : i \in 1..Len(q)}

\* a caller calls acquirePage() without a signal
ClientAcquire(r) ==
    /\ pc[r] = "idle"
    /\ (IF r = 1 THEN TRUE ELSE pc[r - 1] # "idle")   \* numbered in call order
    /\ pc' = [pc EXCEPT ![r] = "acquiring"]
    /\ SetPool(AcquirePage(Pool, r))
    /\ UNCHANGED envVars
    /\ UNCHANGED <<aborted, gtimer, sending, writes, status, releases, leftAt>>

\* a caller calls releasePage(page) with the page it was granted, a first time
\* or again
ClientRelease(r) ==
    /\ acq[r] = "page"
    /\ releases[r] < MaxReleases
    /\ releases' = [releases EXCEPT ![r] = @ + 1]
    /\ pc' = [pc EXCEPT ![r] = IF ReleaseFound(Pool, r) \/ @ = "releasing"
                               THEN "releasing" ELSE "done"]
    /\ SetPool(ReleaseStart(Pool, r))
    /\ UNCHANGED envVars
    /\ UNCHANGED <<aborted, gtimer, sending, writes, status, leftAt>>

\* shutdown() up to its first await: the for..of loop calls removeBrowser on
\* the first browser, or with no browser the call completes at once
ShutdownStart ==
    /\ shut.pc = "none"
    /\ shut' = [shut EXCEPT !.pc = IF browsers = <<>> THEN "done" ELSE "removing",
                            !.i = 1,
                            !.b = IF browsers = <<>> THEN 0 ELSE browsers[1].id,
                            !.start = BrowserIds(browsers),
                            !.waiting = QueueSet(queue)]
    /\ UNCHANGED poolVars
    /\ UNCHANGED <<initLeft, adverse, legacy, shots>>
    /\ UNCHANGED reqVars

\* removeBrowser returns to shutdown(): the browser is closed and spliced out,
\* the array iterator moves to the next index of the array as it is now, and
\* after the loop this.browsers = [] lets go of whatever is left
ShutdownRemoveDone ==
    /\ shut.pc = "removing"
    /\ LET idx == IndexOfBrowser(browsers, shut.b)
           bs == IF idx # 0 THEN RemoveAt(browsers, idx) ELSE browsers
           next == shut.i + 1
       IN IF next > Len(bs)
          THEN /\ browsers' = <<>>
               /\ shut' = [shut EXCEPT !.pc = "done",
                                       !.closed = @ \cup {shut.b},
                                       !.dropped = BrowserIds(bs)]
          ELSE /\ browsers' = bs
               /\ shut' = [shut EXCEPT !.i = next,
                                       !.b = bs[next].id,
                                       !.closed = @ \cup {shut.b}]
    /\ UNCHANGED <<queue, timers, processing, immediates, passes, acq, shifted>>
    /\ UNCHANGED <<initLeft, adverse, legacy, shots>>
    /\ UNCHANGED reqVars

\* ------------------------------------------------------------ specification

Next ==
    \/ InitLaunchDone
    \/ \E i \in DOMAIN browsers : Disconnect(i)
    \/ RunImmediate
    \/ \E k \in DOMAIN passes : RemoveDone(k)
    \/ \E k \in DOMAIN passes, ok \in BOOLEAN : LaunchDone(k, ok)
    \/ \E k \in DOMAIN passes, ok \in BOOLEAN : NewPageDone(k, ok)
    \/ \E r \in Reqs : QueueTimeout(r)
    \/ \E r \in Reqs, valid \in Verdicts : Arrive(r, valid)
    \/ \E r \in Reqs, st \in {500, 504} : AcquireReturn(r, st)
    \/ \E r \in Reqs, res \in NavOutcomes, delay \in BOOLEAN : NavDone(r, res, delay)
    \/ \E r \in Reqs : DelayDone(r)
    \/ \E r \in Reqs, res \in CaptureOutcomes : CaptureDone(r, res)
    \/ \E r \in Reqs, ok \in BOOLEAN : SendFileDone(r, ok)
    \/ \E r \in Reqs, closed \in BOOLEAN : ReleaseDone(r, closed)
    \/ \E r \in Reqs : GlobalTimeout(r)

Spec == Init /\ [][Next]_vars

\* The pool under at most one adverse event, with the scheduling the progress
\* of the queue rests on: setImmediate callbacks run, and the engine operations
\* a pass awaits settle.
Calm == adverse' <= 1

NextOneAdverse ==
    \/ InitLaunchDone /\ Calm
    \/ \E i \in DOMAIN browsers : Disconnect(i) /\ Calm
    \/ RunImmediate /\ Calm
    \/ \E k \in DOMAIN passes : RemoveDone(k) /\ Calm
    \/ \E k \in DOMAIN passes, ok \in BOOLEAN : LaunchDone(k, ok) /\ Calm
    \/ \E k \in DOMAIN passes, ok \in BOOLEAN : NewPageDone(k, ok) /\ Calm
    \/ \E r \in Reqs : QueueTimeout(r) /\ Calm
    \/ \E r \in Reqs, valid \in Verdicts : Arrive(r, valid) /\ Calm
    \/ \E r \in Reqs, st \in {500, 504} : AcquireReturn(r, st) /\ Calm
    \/ \E r \in Reqs, res \in NavOutcomes, delay \in BOOLEAN :
           NavDone(r, res, delay) /\ Calm
    \/ \E r \in Reqs : DelayDone(r) /\ Calm
    \/ \E r \in Reqs, res \in CaptureOutcomes : CaptureDone(r, res) /\ Calm
    \/ \E r \in Reqs, ok \in BOOLEAN : SendFileDone(r, ok) /\ Calm
    \/ \E r \in Reqs, closed \in BOOLEAN : ReleaseDone(r, closed) /\ Calm
    \/ \E r \in Reqs : GlobalTimeout(r) /\ Calm

FairSpec ==
    /\ Init
    /\ [][NextOneAdverse]_vars
    /\ WF_vars(RunImmediate)
    /\ WF_vars(\E k \in DOMAIN passes : RemoveDone(k))
    /\ WF_vars(\E k \in DOMAIN passes, ok \in BOOLEAN : LaunchDone(k, ok))
    /\ WF_vars(\E k \in DOMAIN passes, ok \in BOOLEAN : NewPageDone(k, ok))


\* A burst of valid requests that all arrive before the first of them gets its
\* page, with engines that work and no timer firing: every operation succeeds
\* and every page is released before a queue timeout.  The event loop runs
\* whatever is ready, and engine operations finish.
Burst == \A r \in Reqs : pc[r] # "idle"

BurstNext ==
    \/ InitLaunchDone
    \/ RunImmediate
    \/ \E k \in DOMAIN passes : LaunchDone(k, TRUE)
    \/ \E k \in DOMAIN passes : NewPageDone(k, TRUE)
    \/ \E r \in Reqs : Arrive(r, TRUE)
    \/ \E r \in Reqs : AcquireReturn(r, 500) /\ Burst
    \/ \E r \in Reqs, delay \in BOOLEAN : NavDone(r, "ok", delay)
    \/ \E r \in Reqs : DelayDone(r)
    \/ \E r \in Reqs : CaptureDone(r, "ok")
    \/ \E r \in Reqs : SendFileDone(r, TRUE)
    \/ \E r \in Reqs : ReleaseDone(r, TRUE)

BurstSpec == Init /\ [][BurstNext]_vars /\ WF_vars(BurstNext)

\* The pool on its own, with engines that work, under a caller that may call
\* acquirePage, releasePage (also a second time for the same page) and
\* shutdown() at any moment.  No browser loses its connection here, so no scan
\* of processQueue is suspended in removeBrowser while shutdown() runs.
ApiNext ==
    \/ InitLaunchDone
    \/ RunImmediate
    \/ \E k \in DOMAIN passes : LaunchDone(k, TRUE)
    \/ \E k \in DOMAIN passes, ok \in BOOLEAN : NewPageDone(k, ok) /\ adverse' = 0
    \/ \E r \in Reqs : ClientAcquire(r)
    \/ \E r \in Reqs : ClientRelease(r)
    \/ \E r \in Reqs : ReleaseDone(r, TRUE)
    \/ ShutdownStart
    \/ ShutdownRemoveDone

ApiSpec == Init /\ [][ApiNext]_vars

\* the queue timer of a call fires, as any armed timer does in the end: here
\* it is the course of things, not an adverse event
QueueTimerFires(r) ==
    /\ r \in timers
    /\ SetPool(TimeoutCallback(Pool, r))
    /\ UNCHANGED envVars
    /\ UNCHANGED reqVars

\* The pool on its own with engines whose operations succeed when they
\* return, but need not return: setImmediate callbacks run and armed timers
\* fire, while nothing makes puppeteer.launch, newPage or page.close settle.
HangNext ==
    \/ InitLaunchDone
    \/ RunImmediate
    \/ \E k \in DOMAIN passes : LaunchDone(k, TRUE)
    \/ \E k \in DOMAIN passes : NewPageDone(k, TRUE)
    \/ \E r \in Reqs : QueueTimerFires(r)
    \/ \E r \in Reqs : ClientAcquire(r)
    \/ \E r \in Reqs : ClientRelease(r)
    \/ \E r \in Reqs : ReleaseDone(r, TRUE)

HangSpec ==
    /\ Init
    /\ [][HangNext]_vars
    /\ WF_vars(RunImmediate)
    /\ \A r \in Reqs : WF_vars(QueueTimerFires(r))

\* the same pool when the engine operations of a pass do return
ReturnSpec ==
    /\ HangSpec
    /\ WF_vars(\E k \in DOMAIN passes : LaunchDone(k, TRUE))
    /\ WF_vars(\E k \in DOMAIN passes : NewPageDone(k, TRUE))

\* ----------------------------------- the temporary files of the handler
\*
\* The part of the /render handler from the choice of tempPath to the cleanup
\* of the file, for requests whose pages are ready to be captured.

\* a millisecond passes
ClockTick ==
    /\ shots.now < MaxNow
    /\ shots' = [shots EXCEPT !.now = @ + 1]
    /\ UNCHANGED <<poolVars, reqVars, initLeft, adverse, shut, legacy>>

\* tempPath is built from Date.now() and the type, and page.screenshot is
\* called with it
ChoosePath(r, type) ==
    /\ shots.pc[r] = "ready"
    /\ shots' = [shots EXCEPT !.tempPath[r] = <<shots.now, type>>,
                              !.pc[r] = "capturing"]
    /\ UNCHANGED <<poolVars, reqVars, initLeft, adverse, shut, legacy>>

\* page.screenshot has written the image of the request's page to its path;
\* an aborted request unlinks the file and throws, another calls res.sendFile
ScreenshotDone(r, abort) ==
    /\ shots.pc[r] = "capturing"
    /\ shots' = [shots EXCEPT !.files[shots.tempPath[r]] = IF abort THEN 0 ELSE r,
                              !.pc[r] = IF abort THEN "done" ELSE "sending"]
    /\ UNCHANGED <<poolVars, reqVars, initLeft, adverse, shut, legacy>>

\* res.sendFile reads the file at the path
SendFileRead(r) ==
    /\ shots.pc[r] = "sending"
    /\ shots' = [shots EXCEPT !.sent[r] = shots.files[shots.tempPath[r]],
                              !.pc[r] = "sent"]
    /\ UNCHANGED <<poolVars, reqVars, initLeft, adverse, shut, legacy>>

\* the callback of res.sendFile unlinks the file
SendFileCleanup(r) ==
    /\ shots.pc[r] = "sent"
    /\ shots' = [shots EXCEPT !.files[shots.tempPath[r]] = 0,
                              !.pc[r] = "done"]
    /\ UNCHANGED <<poolVars, reqVars, initLeft, adverse, shut, legacy>>

ShotNext ==
    \/ ClockTick
    \/ \E r \in ShotReqs, type \in ShotTypes : ChoosePath(r, type)
    \/ \E r \in ShotReqs, abort \in BOOLEAN : ScreenshotDone(r, abort)
    \/ \E r \in ShotReqs : SendFileRead(r)
    \/ \E r \in ShotReqs : SendFileCleanup(r)

ShotSpec == Init /\ [][ShotNext]_vars

\* ------------------------------------- the handler of src/src/server.js
\*
\* The first version of the service has no pool: each request launches its
\* own browser.  A request's handler is a sequence of awaits inside one try
\* block with a catch block and no finally block.

\* the catch block: log, answer 500
LegacyCatch(l) ==
    [l EXCEPT !.pc = "done", !.status = 500, !.threwAt = l.pc]

\* an await of the handler settles: go on to the next statement, or to the
\* catch block
LegacySettle(l, ok, after) == IF ok THEN after ELSE LegacyCatch(l)

\* a request arrives: validate, call puppeteer.launch
LegacyArrive(r, valid, fullPage, delay) ==
    /\ legacy[r].pc = "idle"
    /\ legacy' = [legacy EXCEPT ![r] =
                     IF valid
                     THEN [@ EXCEPT !.pc = "launching", !.fullPage = fullPage,
                                    !.delay = delay]
                     ELSE [@ EXCEPT !.pc = "done", !.status = 400]]
    /\ UNCHANGED <<poolVars, reqVars, initLeft, adverse, shut, shots>>

\* puppeteer.launch settles
LegacyLaunchDone(r, ok) ==
    /\ legacy[r].pc = "launching"
    /\ legacy' = [legacy EXCEPT ![r] =
                     LegacySettle(@, ok, [@ EXCEPT !.pc = "newpage",
                                                   !.browser = "open"])]
    /\ UNCHANGED <<poolVars, reqVars, initLeft, adverse, shut, shots>>

\* browser.newPage settles; the viewport is set unless fullPage
LegacyNewPageDone(r, ok) ==
    /\ legacy[r].pc = "newpage"
    /\ legacy' = [legacy EXCEPT ![r] =
                     LegacySettle(@, ok, [@ EXCEPT !.pc = IF legacy[r].fullPage
                                                          THEN "navigating"
                                                          ELSE "viewport"])]
    /\ UNCHANGED <<poolVars, reqVars, initLeft, adverse, shut, shots>>

\* page.setViewport settles
LegacyViewportDone(r, ok) ==
    /\ legacy[r].pc = "viewport"
    /\ legacy' = [legacy EXCEPT ![r] =
                     LegacySettle(@, ok, [@ EXCEPT !.pc = "navigating"])]
    /\ UNCHANGED <<poolVars, reqVars, initLeft, adverse, shut, shots>>

\* page.goto or page.setContent settles
LegacyNavDone(r, ok) ==
    /\ legacy[r].pc = "navigating"
    /\ legacy' = [legacy EXCEPT ![r] =
                     LegacySettle(@, ok, [@ EXCEPT !.pc = IF legacy[r].delay
                                                          THEN "delaying"
                                                          ELSE "capturing"])]
    /\ UNCHANGED <<poolVars, reqVars, initLeft, adverse, shut, shots>>

\* page.waitForTimeout settles
LegacyDelayDone(r, ok) ==
    /\ legacy[r].pc = "delaying"
    /\ legacy' = [legacy EXCEPT ![r] =
                     LegacySettle(@, ok, [@ EXCEPT !.pc = "capturing"])]
    /\ UNCHANGED <<poolVars, reqVars, initLeft, adverse, shut, shots>>

\* page.screenshot settles; browser.close is called
LegacyCaptureDone(r, ok) ==
    /\ legacy[r].pc = "capturing"
    /\ legacy' = [legacy EXCEPT ![r] =
                     LegacySettle(@, ok, [@ EXCEPT !.pc = "closing"])]
    /\ UNCHANGED <<poolVars, reqVars, initLeft, adverse, shut, shots>>

\* browser.close settles; the image is sent
LegacyCloseDone(r, ok) ==
    /\ legacy[r].pc = "closing"
    /\ legacy' = [legacy EXCEPT ![r] =
                     LegacySettle(@, ok, [@ EXCEPT !.pc = "done",
                                                   !.browser = "closed",
                                                   !.status = 200])]
    /\ UNCHANGED <<poolVars, reqVars, initLeft, adverse, shut, shots>>

LegacyNext ==
    \/ \E r \in LegacyReqs, valid \in Verdicts, fullPage \in BOOLEAN, delay \in BOOLEAN :
           LegacyArrive(r, valid, fullPage, delay)
    \/ \E r \in LegacyReqs, ok \in BOOLEAN : LegacyLaunchDone(r, ok)
    \/ \E r \in LegacyReqs, ok \in BOOLEAN : LegacyNewPageDone(r, ok)
    \/ \E r \in LegacyReqs, ok \in BOOLEAN : LegacyViewportDone(r, ok)
    \/ \E r \in LegacyReqs, ok \in BOOLEAN : LegacyNavDone(r, ok)
    \/ \E r \in LegacyReqs, ok \in BOOLEAN : LegacyDelayDone(r, ok)
    \/ \E r \in LegacyReqs, ok \in BOOLEAN : LegacyCaptureDone(r, ok)
    \/ \E r \in LegacyReqs, ok \in BOOLEAN : LegacyCloseDone(r, ok)

LegacySpec == Init /\ [][LegacyNext]_vars

\* ------------------------------------------------------------------ claims

Capacity == maxBrowsers * maxPagesPerBrowser

\* requests that called acquirePage
Acquirers == {r \in Reqs : acq[r] # "none"}

HoldsPage(r) == \E i \in 1..Len(browsers) : r \in browsers[i].pages

\* newPage calls in flight on the browser with identity id
InFlightOn(id) == Cardinality({k \in 1..Len(passes) : passes[k].pc = "newpage" /\ passes[k].b = id})

RECURSIVE TotalPagesFrom(_)
TotalPagesFrom(i) ==
    IF i > Len(browsers) THEN 0
    ELSE Cardinality(browsers[i].pages) + TotalPagesFrom(i + 1)

\* C1: in every reachable state every browser of the pool has at most
\* maxPagesPerBrowser pages, counting the pages whose newPage is still in
\* flight on it: two acquisitions never both get the same free slot.
C1_PagesWithinLimit ==
    \A i \in 1..Len(browsers) :
        Cardinality(browsers[i].pages) + InFlightOn(browsers[i].id) <= maxPagesPerBrowser

\* a full browser whose slot was freed before, with another acquisition waiting
C1_Witness ==
    \E i \in 1..Len(browsers), r \in Reqs :
        /\ Cardinality(browsers[i].pages) = maxPagesPerBrowser
        /\ releases[r] = 1
        /\ pc[r] = "done"
        /\ queue # <<>>

\* C2: the pages of all browsers of the pool together never exceed
\* maxBrowsers x maxPagesPerBrowser.
C2_TotalWithinCapacity == TotalPagesFrom(1) <= Capacity

\* C3: the pool never holds more than maxBrowsers browsers.
C3_BrowsersWithinLimit == Len(browsers) <= maxBrowsers

\* C4: releasePage is called exactly once for the page a request was granted,
\* on every exit path of the handler, and never for a request without a page;
\* once the handler has left its try block the page is in no browser's list.
C4_ReleasedExactlyOnce ==
    \A r \in Reqs :
        /\ releases[r] <= 1
        /\ releases[r] = 1 => acq[r] = "page"
        /\ pc[r] \in {"releasing", "done"} /\ acq[r] = "page" =>
               releases[r] = 1 /\ ~HoldsPage(r)

\* the global timer answered 504 while sendFile of a finished capture was
\* still under way, and the request is done and its page released
C4_Witness ==
    \E r \in Reqs :
        /\ pc[r] = "done"
        /\ aborted[r]
        /\ sending[r]
        /\ status[r] = 504
        /\ releases[r] = 1

\* C5: a request never gets two status lines, and a request whose handler and
\* sendFile have finished got exactly one.
C5_ExactlyOneResponse ==
    \A r \in Reqs :
        /\ writes[r] <= 1
        /\ pc[r] = "done" /\ ~sending[r] => writes[r] = 1

\* the global timer has answered a request whose sendFile is still under way
C5_Witness ==
    \E r \in Reqs :
        /\ pc[r] = "releasing"
        /\ aborted[r]
        /\ sending[r]
        /\ writes[r] = 1

\* C6: when an acquirePage call is resolved with a page, no call that was
\* enqueued before it is still pending (requests are numbered in arrival order).
C6_Fifo ==
    [][\A b \in Reqs :
          acq[b] # "page" /\ acq'[b] = "page" =>
              \A a \in 1..(b - 1) : acq[a] # "pending"]_vars

\* the older of two entries has its page while the younger still waits
C6_Witness ==
    \E a \in Reqs, b \in Reqs :
        /\ a < b
        /\ acq[a] = "page"
        /\ acq[b] = "pending"
        /\ InQueue(queue, b)
        /\ \E c \in Reqs : releases[c] = 1

\* C7: while at most Capacity acquirePage calls were issued, nothing was
\* released and nothing went wrong (no dead browser, no failure, no timer), a
\* call of processQueue never takes the 'No available browsers, waiting...'
\* branch, and no entry is left in the queue with nothing running or scheduled.
C7_Scenario ==
    /\ adverse = 0
    /\ \A r \in Reqs : releases[r] = 0
    /\ Cardinality(Acquirers) <= Capacity

C7_NoQueueing ==
    C7_Scenario =>
        /\ queue # <<>> /\ ~processing => ~ProcessQueue(Pool).waited
        /\ ~processing /\ immediates = 0 => queue = <<>>

\* Capacity calls were issued and all of them hold a page, none released
C7_Witness ==
    /\ C7_Scenario
    /\ Cardinality(Acquirers) = Capacity
    /\ \A r \in Acquirers : acq[r] = "page" /\ HoldsPage(r)

\* a connected browser of the pool has a free page slot
FreeSlot ==
    \E i \in 1..Len(browsers) :
        browsers[i].connected /\ Cardinality(browsers[i].pages) < maxPagesPerBrowser

\* C8: whenever a connected browser has a free slot (a release freed it, also
\* one whose page.close() failed) and an entry is the oldest in the queue, that
\* entry is taken from the queue (served, or withdrawn by its timer or signal)
\* unless the slot goes away with its browser; engine operations settle.
C8_Drain ==
    \A r \in Reqs :
        (FreeSlot /\ queue # <<>> /\ Head(queue) = r) ~> (~InQueue(queue, r) \/ ~FreeSlot)

\* a release whose page.close() is pending left a free slot and an entry waits
C8_Witness ==
    \E r \in Reqs :
        /\ pc[r] = "releasing"
        /\ FreeSlot
        /\ queue # <<>>
        /\ ~processing

\* C9: an armed queue timer belongs to an entry still waiting in the queue, so
\* its firing rejects that call; a call rejected by its queue timer is out of
\* the queue, was never taken by queue.shift() and has no page.
C9_QueueTimeout ==
    \A r \in Reqs :
        /\ r \in timers => acq[r] = "pending" /\ InQueue(queue, r)
        /\ acq[r] = "timeout" =>
               /\ ~InQueue(queue, r)
               /\ r \notin shifted
               /\ ~HoldsPage(r)

\* a call timed out while every slot is still held by requests that navigate
C9_Witness ==
    \E r \in Reqs :
        /\ acq[r] = "timeout"
        /\ Len(browsers) >= maxBrowsers
        /\ \A i \in 1..Len(browsers) :
               /\ Cardinality(browsers[i].pages) = maxPagesPerBrowser
               /\ \A h \in browsers[i].pages : pc[h] = "navigating"

\* C10: a call whose signal fired is not in the queue; a call rejected by its
\* abort listener was never taken by queue.shift() and has no page.
C10_AbortInQueue ==
    \A r \in Reqs :
        /\ aborted[r] => ~InQueue(queue, r)
        /\ acq[r] = "abort" =>
               /\ aborted[r]
               /\ r \notin shifted
               /\ ~HoldsPage(r)

\* a call was aborted in the queue while another call still waits behind it
C10_Witness ==
    \E r \in Reqs :
        /\ acq[r] = "abort"
        /\ queue # <<>>

\* C11: a call of releasePage for a page that was released before leaves the
\* page list of every browser as it was: nothing is removed a second time, and
\* no page of another request is removed.
C11_SecondReleaseNoEffect ==
    [][\A r \in Reqs :
          releases[r] >= 1 /\ releases'[r] = releases[r] + 1 => browsers' = browsers]_vars

\* a page was released twice while another request holds a page
C11_Witness ==
    \E r \in Reqs, h \in Reqs :
        /\ releases[r] = 2
        /\ h # r
        /\ HoldsPage(h)

\* exactly one of html and url is given (a missing key and an empty string
\* both count as not given)
ExactlyOne(html, url) == Truthy(html) # Truthy(url)

\* C12: a request that does not carry exactly one of html and url, or whose
\* type is neither 'png' nor 'jpeg', is answered 400 in the step it arrives
\* in, and acquirePage is not called for it then or later: the queue, the
\* browsers and their page lists stay as they were.
C12_Invalid400 ==
    /\ [](\A r \in Reqs : status[r] = 400 => acq[r] = "none" /\ releases[r] = 0)
    /\ [][\A r \in Reqs :
             pc[r] = "idle" /\ pc'[r] # "idle" =>
                 \A html \in Fields, url \in Fields, type \in Types :
                     /\ ~ExactlyOne(html, url) \/ TypeOf(type) \notin {"png", "jpeg"}
                     /\ Arrive(r, Valid(html, url, type))
                     => /\ status'[r] = 400
                        /\ writes'[r] = 1
                        /\ pc'[r] = "done"
                        /\ acq'[r] = "none"
                        /\ queue' = queue
                        /\ browsers' = browsers
                        /\ passes' = passes]_vars

\* a request was answered 400 while other requests hold every page and wait
C12_Witness ==
    \E r \in Reqs :
        /\ status[r] = 400
        /\ queue # <<>>
        /\ \E h \in Reqs : HoldsPage(h)

\* C13: when the global timer of a request fires and no status line was
\* written yet, that step fires the abort signal and writes 504, whatever the
\* handler is waiting for; a request whose signal fired has 504 as its one
\* status from then on.
C13_GlobalTimeout504 ==
    /\ [](\A r \in Reqs : aborted[r] => status[r] = 504 /\ writes[r] = 1)
    /\ [][\A r \in Reqs :
             gtimer[r] /\ writes[r] = 0 /\ GlobalTimeout(r) =>
                 aborted'[r] /\ status'[r] = 504 /\ writes'[r] = 1]_vars

\* the global timer answered 504 while the navigation was in flight
C13_Witness ==
    \E r \in Reqs :
        /\ pc[r] = "navigating"
        /\ aborted[r]
        /\ status[r] = 504

\* the failures whose cause is a timeout
TimeoutCause(msg) == msg \in {QueueTimeoutMsg, NavTimeoutMsg, RenderTimeoutMsg}

\* C14: when the catch block answers a failure, it writes 504 if the cause is
\* a timeout (queue timeout, navigation timeout, render timeout) and 500 for
\* every other cause.
C14_StatusByCause ==
    [][\A r \in Reqs :
          writes[r] = 0 /\ writes'[r] = 1 =>
              /\ acq[r] = "timeout" /\ AcquireReturn(r, 504) => status'[r] = 504
              /\ \A m \in NavOutcomes \ {"ok"} :
                     NavDone(r, m, FALSE) =>
                         status'[r] = IF TimeoutCause(m) THEN 504 ELSE 500
              /\ \A m \in CaptureOutcomes \ {"ok"} :
                     CaptureDone(r, m) =>
                         status'[r] = IF TimeoutCause(m) THEN 504 ELSE 500]_vars

\* C15: when the render timeout wins the race against page.screenshot, the
\* same step answers 504 and calls releasePage: the page is out of its
\* browser's list at once, while the capture is still running.
C15_RenderTimeout ==
    [][\A r \in Reqs :
          pc[r] = "capture" /\ CaptureDone(r, RenderTimeoutMsg) =>
              /\ status'[r] = 504
              /\ writes'[r] = 1
              /\ releases'[r] = releases[r] + 1
              /\ \A i \in 1..Len(browsers') : r \notin browsers'[i].pages
              /\ pc'[r] \in {"releasing", "done"}]_vars

\* a capture ran into the render timeout; the page is released while its
\* page.close() is pending, and another request waits in the queue
C15_Witness ==
    \E r \in Reqs :
        /\ leftAt[r] = "capture"
        /\ status[r] = 504
        /\ ~aborted[r]
        /\ pc[r] = "releasing"
        /\ ~HoldsPage(r)
        /\ queue # <<>>

C17_LaunchFailurePropagated ==
    [][\A k \in DOMAIN passes :
          passes[k].pc = "launching" /\ queue # <<>> /\ LaunchDone(k, FALSE) =>
              /\ acq'[Head(queue)] = "error"
              /\ ~InQueue(queue', Head(queue))]_vars

\* a pass of processQueue is suspended in removeBrowser
Removing == \E k \in DOMAIN passes : passes[k].pc = "removing"

\* a connected browser has a free slot, or the pool may launch one more
Available == FreeSlot \/ Len(browsers) < maxBrowsers

\* C18: the scan calls newPage only on a browser that is connected; it calls
\* removeBrowser only on a browser it found disconnected, and when
\* removeBrowser returns that browser is out of the pool; the eviction
\* rejects no call, and the call at the head of the queue is then served as
\* long as a connected browser has a free slot or the pool may launch.
C18_LivenessCheck ==
    /\ [](\A k \in DOMAIN passes :
             passes[k].pc = "removing" =>
                 LET idx == IndexOfBrowser(browsers, passes[k].b) IN
                 idx = 0 \/ ~browsers[idx].connected)
    /\ [][\A r \in shifted' \ shifted :
             \E k \in DOMAIN passes' :
                 /\ passes'[k].pc = "newpage"
                 /\ passes'[k].r = r
                 /\ LET idx == IndexOfBrowser(browsers', passes'[k].b) IN
                    idx # 0 /\ browsers'[idx].connected]_vars
    /\ [][\A k \in DOMAIN passes :
             passes[k].pc = "removing" /\ RemoveDone(k) =>
                 /\ IndexOfBrowser(browsers', passes[k].b) = 0
                 /\ \A r \in Reqs : acq[r] = "pending" => acq'[r] = "pending"]_vars
    /\ \A r \in Reqs :
           (Removing /\ queue # <<>> /\ Head(queue) = r) ~> (r \in shifted \/ ~Available)

\* a dead browser was evicted (the pool is below maxBrowsers after
\* initialize() finished) and the pass that met it went on to launch a
\* browser for the entry at the head of the queue
C18_Witness ==
    /\ initLeft = 0
    /\ Len(browsers) < maxBrowsers
    /\ \A i \in 1..Len(browsers) : browsers[i].connected
    /\ \E k \in DOMAIN passes : passes[k].pc = "launching"
    /\ queue # <<>>

\* C19: when shutdown() has completed, removeBrowser was applied to every
\* browser that was in the pool when shutdown() was called.
C19_ShutdownEvictsAll ==
    shut.pc = "done" => shut.start \subseteq shut.closed

\* C20: when shutdown() has completed, the queue is empty and every call that
\* was waiting in it when shutdown() was called has been rejected.
C20_ShutdownFailsWaiters ==
    shut.pc = "done" =>
        /\ queue = <<>>
        /\ \A r \in shut.waiting : acq[r] \in {"timeout", "abort", "error"}

\* C21: in the step in which the abort signal of a request fires, a request
\* that waits in the queue is rejected and leaves the queue, and a request in
\* the navigation, the delay or the capture leaves that stage and calls
\* releasePage.
C21_AllStagesCancellable ==
    [][\A r \in Reqs :
          ~aborted[r] /\ aborted'[r] =>
              /\ pc[r] = "acquiring" /\ InQueue(queue, r) =>
                     acq'[r] = "abort" /\ ~InQueue(queue', r)
              /\ pc[r] \in {"navigating", "delay", "capture"} =>
                     pc'[r] \in {"releasing", "done"} /\ releases'[r] = 1]_vars

\* the newPage calls in flight for request r
PassesFor(r) == {k \in DOMAIN passes : passes[k].pc = "newpage" /\ passes[k].r = r}

\* the browsers whose list holds the page created for request r
HoldersOf(r) == {i \in 1..Len(browsers) : r \in browsers[i].pages}

\* C22: a page is created for one queue entry and goes to that entry's call
\* alone.  An entry is taken from the queue at most once, so at most one
\* newPage call is ever made for a call; the page is pushed to one browser's
\* list and resolves the call whose entry was taken, and no other call is
\* resolved in that step; a page in a list belongs to a call that was
\* resolved with it.
C22_ExclusiveOwnership ==
    /\ [](\A r \in Reqs :
             /\ Cardinality(PassesFor(r)) + Cardinality(HoldersOf(r)) <= 1
             /\ PassesFor(r) # {} => acq[r] = "pending" /\ r \in shifted
             /\ HoldersOf(r) # {} => acq[r] = "page" /\ releases[r] = 0)
    /\ [][/\ \A r \in Reqs : PassesFor(r)' # {} /\ PassesFor(r) = {} => r \notin shifted
          /\ \A k \in DOMAIN passes :
                 passes[k].pc = "newpage" /\ NewPageDone(k, TRUE) =>
                     \A r \in Reqs :
                         (acq[r] # "page" /\ acq'[r] = "page") <=> r = passes[k].r]_vars

\* two calls hold a page each, on different browsers, while a third call has
\* its newPage in flight or waits
C22_Witness ==
    \E a \in Reqs, b \in Reqs :
        /\ a # b
        /\ HoldersOf(a) # {}
        /\ HoldersOf(b) # {}
        /\ HoldersOf(a) # HoldersOf(b)
        /\ queue # <<>>

C24_LaunchServesTrigger ==
    [][\A k \in DOMAIN passes :
          passes[k].pc = "launching" /\ LaunchDone(k, TRUE) =>
              \A r \in shifted' \ shifted : r = passes[k].r]_vars

\* a pass of processQueue starts a launch in this step
LaunchStarts ==
    \E k \in DOMAIN passes' :
        /\ passes'[k].pc = "launching"
        /\ \A j \in DOMAIN passes : passes[j].pc # "launching"

\* C25: once initialize() has finished, a pass starts a launch only when no
\* connected browser of the pool has a free page slot and the pool holds
\* fewer than maxBrowsers browsers, also after the scan evicted a browser.
C25_LaunchOnlyWhenFull ==
    [][initLeft = 0 /\ LaunchStarts =>
           /\ Len(browsers') < maxBrowsers
           /\ \A i \in 1..Len(browsers') :
                  ~(browsers'[i].connected /\ HasFreeSlot(browsers'[i]))]_vars

\* after this step a setImmediate callback is pending whose processQueue
\* call, run on the pool as the step leaves it, starts a launch
LaunchScheduled ==
    /\ immediates' > 0
    /\ LET P == ProcessQueue([Pool' EXCEPT !.immediates = @ - 1])
       IN \E j \in DOMAIN P.passes : P.passes[j].pc = "launching"

\* C26: the step in which the launch of a pass fails does not schedule a pass
\* that launches again for the entries still waiting: a further launch takes
\* a new acquirePage or releasePage call.
C26_NoSilentRetry ==
    [][\A k \in DOMAIN passes :
          passes[k].pc = "launching" /\ LaunchDone(k, FALSE) => ~LaunchScheduled]_vars

\* C27: a call whose signal fired after its entry was taken from the queue is
\* not rejected by the signal; when its newPage succeeds the call is resolved
\* with the page, and the handler, on getting it, goes to its finally block
\* and calls releasePage in that step, without navigation or capture.
C27_AbortAfterShift ==
    /\ [](\A r \in Reqs : aborted[r] /\ PassesFor(r) # {} => acq[r] = "pending")
    /\ [][/\ \A k \in DOMAIN passes :
                 /\ passes[k].pc = "newpage"
                 /\ aborted[passes[k].r]
                 /\ NewPageDone(k, TRUE)
                 => /\ acq'[passes[k].r] = "page"
                    /\ \E i \in 1..Len(browsers') : passes[k].r \in browsers'[i].pages
          /\ \A r \in Reqs :
                 /\ pc[r] = "acquiring"
                 /\ aborted[r]
                 /\ acq[r] = "page"
                 /\ pc'[r] # "acquiring"
                 => /\ pc'[r] \in {"releasing", "done"}
                    /\ releases'[r] = 1
                    /\ \A i \in 1..Len(browsers') : r \notin browsers'[i].pages]_vars

\* the signal fired while newPage was in flight; the page was delivered and
\* the handler released it straight from the acquire stage
C27_Witness ==
    \E r \in Reqs :
        /\ aborted[r]
        /\ acq[r] = "page"
        /\ leftAt[r] = "acquiring"
        /\ releases[r] = 1

\* the calls whose page is in the list of the browser with identity id
PagesOf(id) ==
    UNION {browsers[i].pages : i \in {j \in 1..Len(browsers) : browsers[j].id = id}}

\* C28: when removeBrowser has evicted a browser, the browser and its pages
\* are out of the pool's lists; and releasePage for a page that is in no list
\* (its browser was evicted) leaves every browser's page list as it was.
C28_EvictionAccounting ==
    [][/\ shut.pc = "removing" /\ ShutdownRemoveDone =>
              /\ \A i \in 1..Len(browsers') : browsers'[i].id # shut.b
              /\ \A r \in PagesOf(shut.b) :
                     \A i \in 1..Len(browsers') : r \notin browsers'[i].pages
       /\ \A r \in Reqs :
              /\ acq[r] = "page"
              /\ HoldersOf(r) = {}
              /\ releases'[r] = releases[r] + 1
              => browsers' = browsers]_vars

\* removeBrowser evicted the browser that held the page of a call which has
\* not released yet, while another call holds a page on a remaining browser
C28_Witness ==
    \E r \in Reqs, h \in Reqs :
        /\ shut.closed # {}
        /\ shut.dropped = {}
        /\ acq[r] = "page"
        /\ releases[r] = 0
        /\ HoldersOf(r) = {}
        /\ HoldersOf(h) # {}

\* C29: in the handler of src/src/server.js, a request that has ended has
\* left no launched browser open, whichever await threw.
C29_LegacyBrowserClosed ==
    \A r \in LegacyReqs : legacy[r].pc = "done" => legacy[r].browser # "open"

\* C30: when newPage fails for the entry a pass took from the head of the
\* queue, the entry's call is rejected with the error, no browser's page list
\* changes, the queue keeps its other entries, the processing flag is cleared
\* and, while entries wait, another call of processQueue is scheduled.
C30_NewPageFailure ==
    [][\A k \in DOMAIN passes :
           /\ passes[k].pc = "newpage"
           /\ NewPageDone(k, FALSE)
           => /\ acq'[passes[k].r] = "error"
              /\ browsers' = browsers
              /\ queue' = queue
              /\ ~processing'
              /\ queue # <<>> => immediates' > 0]_vars

\* newPage failed for one call, and a call that was behind it in the queue
\* was granted a page afterwards
C30_Witness ==
    \E r \in Reqs, q \in Reqs :
        /\ r < q
        /\ acq[r] = "error"
        /\ r \in shifted
        /\ HoldersOf(q) # {}

\* C31: with engine operations that may never return, every acquirePage call
\* that is pending is settled in the end, and the processing flag, once set,
\* is cleared in the end.
C31_SettlesDespiteHang ==
    /\ \A r \in Reqs : (acq[r] = "pending") ~> (acq[r] # "pending")
    /\ processing ~> ~processing

\* C32: a pass that resumes after awaiting launchBrowser or removeBrowser and
\* goes on to queue.shift() finds an entry in the queue: it does not throw on
\* the destructuring of undefined.
C32_NeverShiftsEmpty ==
    [][\A k \in DOMAIN passes :
           /\ passes[k].pc = "launching" /\ LaunchDone(k, TRUE) => queue # <<>>
           /\ passes[k].pc = "removing" /\ RemoveDone(k) => ~AfterRemove(k).threw]_vars

\* the requests whose temporary file is in use: chosen and not cleaned up yet
InFlight == {r \in ShotReqs : shots.pc[r] \in {"capturing", "sending", "sent"}}

\* C33: two requests in flight never have the same tempPath, and the image a
\* request's response carries is the image of its own page.
C33_OwnTempFile ==
    /\ \A r \in InFlight, q \in InFlight :
           r # q => shots.tempPath[r] # shots.tempPath[q]
    /\ \A r \in ShotReqs : shots.sent[r] \in {-1, r}

\* C34: once shutdown() has completed (and initialize() before it), no step
\* starts a launch, starts a newPage call, adds a browser to the pool or
\* resolves a call with a page.
C34_QuietAfterShutdown ==
    [][shut.pc = "done" /\ initLeft = 0 =>
           /\ ~LaunchStarts
           /\ \A k \in DOMAIN passes' :
                  passes'[k].pc = "newpage" =>
                      \E j \in DOMAIN passes : passes[j] = passes'[k]
           /\ Len(browsers') <= Len(browsers)
           /\ \A r \in Reqs : acq'[r] = "page" => acq[r] = "page"]_vars

\* C35: whenever an entry waits in the queue, a processQueue pass is suspended
\* at an await (and will run its finally block) or a setImmediate callback
\* that calls processQueue is pending.
C35_NoLostWakeup ==
    queue # <<>> => passes # <<>> \/ immediates > 0

\* an entry waits while the pool is full and no pass is running: only the
\* pending setImmediate callback will look at it again
C35_Witness ==
    /\ queue # <<>>
    /\ passes = <<>>
    /\ ~processing
    /\ immediates > 0
    /\ Len(browsers) >= maxBrowsers
    /\ \A i \in 1..Len(browsers) : browsers[i].connected /\ ~HasFreeSlot(browsers[i])

\* C36: at most one processQueue pass is suspended at an await, and the flag
\* is set while it is; a processQueue call made meanwhile (by a setImmediate
\* callback, by releasePage or by acquirePage) starts no scan, launch or
\* newPage call and takes no entry from the queue.
C36_SinglePass ==
    /\ [](Len(passes) <= 1 /\ (passes # <<>> => processing))
    /\ [][/\ passes # <<>>
          /\ \/ RunImmediate
             \/ \E r \in Reqs : pc[r] = "releasing" /\ ReleaseDone(r, TRUE)
             \/ \E r \in Reqs : pc[r] = "idle" /\ Arrive(r, TRUE)
          => /\ passes' = passes
             /\ shifted' = shifted
             /\ Len(browsers') = Len(browsers)]_vars

\* a pass is suspended in newPage while an entry waits and another connected
\* browser has a free slot
C36_Witness ==
    /\ Len(passes) = 1
    /\ passes[1].pc = "newpage"
    /\ queue # <<>>
    /\ \E i \in 1..Len(browsers) :
           /\ browsers[i].connected
           /\ HasFreeSlot(browsers[i])
           /\ browsers[i].id # passes[1].b

====
